---- MODULE Spec2Model ----
(***************************************************************************)
(* Model of src/app.py: the input-normalisation and verdict pipeline of    *)
(* the fake-news detector.  One script run (a Streamlit rerun) is a        *)
(* request: the input section extracts news_text, then, when the analyze   *)
(* button is pressed, the analysis block validates it, detects the         *)
(* language, calls the reasoning service and renders the verdict.          *)
(*                                                                         *)
(* Text is a sequence of characters; a character is a one-character        *)
(* string, except "U+FB00" and "U+212A", which stand for the single        *)
(* characters LATIN SMALL LIGATURE FF and KELVIN SIGN, and "<None>", the   *)
(* only element of the sequence that stands for Python's None.             *)
(***************************************************************************)
EXTENDS Naturals, Sequences, FiniteSets

VARIABLES
    pc,             \* position of the script run
    input_type,     \* st.radio value
    text_area,      \* st.text_area value
    url,            \* st.text_input value
    uploaded_image, \* st.file_uploader value
    analyze,        \* st.button value
    http,           \* what requests.get / BeautifulSoup did in this run
    news_text,      \* the script's news_text
    valid,          \* outcome of the validation check
    detector,       \* what langdetect.detect did in this run
    lang,           \* the script's lang
    langRuns,       \* calls of detect_language_safe in this run
    detectCalls,    \* calls of langdetect.detect in this run
    parsed,         \* calls of BeautifulSoup in this run
    groqCalls,      \* calls of client.chat.completions.create in this run
    prompt,         \* the news text embedded in the prompt sent
    svcError,       \* exception message of the service call, "" if none
    result,         \* the script's result
    shownLang,      \* language label rendered by st.info
    verdict,        \* verdict badge rendered
    warning,        \* st.warning rendered
    error,          \* st.error rendered
    uncaught,       \* exception that escaped the script
    fn,             \* unit call: function applied, "none" before the call
    arg,            \* unit call: the argument
    ret             \* unit call: the value returned

vars == <<pc, input_type, text_area, url, uploaded_image, analyze, http,
          news_text, valid, detector, lang, langRuns, detectCalls, parsed,
          groqCalls, prompt, svcError, result, shownLang, verdict, warning,
          error, uncaught, fn, arg, ret>>

-----------------------------------------------------------------------------
(* Bounds of the model *)

MaxLen == 10
MaxPad == 1
MaxNodes == 2

(* Program constants *)

MinTokens == 5
MaxExtractLen == 4000
HttpOk == 200

-----------------------------------------------------------------------------
(* Python str operations *)

Whitespace == {" ", "\n", "\t"}

LowerLetters ==
    <<"a","b","c","d","e","f","g","h","i","j","k","l","m",
      "n","o","p","q","r","s","t","u","v","w","x","y","z">>

UpperLetters ==
    <<"A","B","C","D","E","F","G","H","I","J","K","L","M",
      "N","O","P","Q","R","S","T","U","V","W","X","Y","Z">>

IsSpace(c) == c \in Whitespace

IndexIn(letters, c) == CHOOSE i \in 1..Len(letters) : letters[i] = c

IsIn(letters, c) == \E i \in 1..Len(letters) : letters[i] = c

\* str.upper() of one character: full case mapping, so the ligature U+FB00
\* becomes the two characters "FF"; the Kelvin sign is uppercase already.
UpperChar(c) ==
    IF c = "U+FB00" THEN <<"F", "F">>
    ELSE IF IsIn(LowerLetters, c) THEN <<UpperLetters[IndexIn(LowerLetters, c)]>>
    ELSE <<c>>

\* str.lower() of one character (U+FB00 is lowercase already).
LowerChar(c) ==
    IF c = "U+212A" THEN <<"k">>
    ELSE IF IsIn(UpperLetters, c) THEN <<LowerLetters[IndexIn(UpperLetters, c)]>>
    ELSE <<c>>

RECURSIVE Upper(_)
Upper(s) == IF s = <<>> THEN <<>> ELSE UpperChar(Head(s)) \o Upper(Tail(s))

RECURSIVE Lower(_)
Lower(s) == IF s = <<>> THEN <<>> ELSE LowerChar(Head(s)) \o Lower(Tail(s))

RECURSIVE LStrip(_)
LStrip(s) ==
    IF s = <<>> THEN s
    ELSE IF IsSpace(Head(s)) THEN LStrip(Tail(s)) ELSE s

RECURSIVE RStrip(_)
RStrip(s) ==
    IF s = <<>> THEN s
    ELSE IF IsSpace(s[Len(s)]) THEN RStrip(SubSeq(s, 1, Len(s) - 1)) ELSE s

\* str.strip()
Strip(s) == RStrip(LStrip(s))

RECURSIVE SplitAcc(_, _, _)
SplitAcc(s, cur, toks) ==
    IF s = <<>> THEN (IF cur = <<>> THEN toks ELSE Append(toks, cur))
    ELSE IF IsSpace(Head(s))
         THEN SplitAcc(Tail(s), <<>>, IF cur = <<>> THEN toks ELSE Append(toks, cur))
         ELSE SplitAcc(Tail(s), Append(cur, Head(s)), toks)

\* str.split(): the maximal runs of non-whitespace characters
Split(s) == SplitAcc(s, <<>>, <<>>)

RECURSIVE Join(_, _)
\* sep.join(toks)
Join(sep, toks) ==
    IF toks = <<>> THEN <<>>
    ELSE IF Len(toks) = 1 THEN toks[1]
    ELSE toks[1] \o sep \o Join(sep, Tail(toks))

\* s[:n]
Take(s, n) == IF Len(s) <= n THEN s ELSE SubSeq(s, 1, n)

\* needle in s
Contains(s, needle) ==
    \E i \in 1..(Len(s) + 1 - Len(needle)) :
        SubSeq(s, i, i + Len(needle) - 1) = needle

SeqsUpTo(A, n) == UNION {[1..k -> A] : k \in 0..n}

-----------------------------------------------------------------------------
(* Helper functions of src/app.py *)

greetings == {<<"h","i">>, <<"h","e","l","l","o">>, <<"h","e","y">>,
              <<"o","k">>, <<"t","e","s","t">>}

is_valid_news_AtMost(text) ==
    LET t == Lower(Strip(text)) IN
    IF Len(Split(t)) <= MinTokens THEN FALSE
    ELSE IF t \in greetings THEN FALSE
    ELSE TRUE

is_valid_news_OffByOne(text) ==
    LET t == Lower(Strip(text)) IN
    IF Len(Split(t)) < MinTokens - 1 THEN FALSE
    ELSE IF t \in greetings THEN FALSE
    ELSE TRUE

is_valid_news(text) ==
    LET t == Lower(Strip(text)) IN
    IF Len(Split(t)) < MinTokens THEN FALSE
    ELSE IF t \in greetings THEN FALSE
    ELSE TRUE

NotEnoughText == <<"N","o","t"," ","e","n","o","u","g","h"," ","t","e","x","t">>
Unknown == <<"U","n","k","n","o","w","n">>
English == <<"E","n","g","l","i","s","h">>
Tamil == <<"T","a","m","i","l">>
Hindi == <<"H","i","n","d","i">>
Telugu == <<"T","e","l","u","g","u">>
Kannada == <<"K","a","n","n","a","d","a">>
Malayalam == <<"M","a","l","a","y","a","l","a","m">>

\* lang_map.get(code, default)
lang_map_get(code, default) ==
    CASE code = <<"e","n">> -> English
      [] code = <<"t","a">> -> Tamil
      [] code = <<"h","i">> -> Hindi
      [] code = <<"t","e">> -> Telugu
      [] code = <<"k","n">> -> Kannada
      [] code = <<"m","l">> -> Malayalam
      [] OTHER -> default

\* Language codes langdetect.detect can return (a sample of its profiles).
Codes == {<<"e","n">>, <<"t","a">>, <<"h","i">>, <<"t","e">>, <<"k","n">>,
          <<"m","l">>, <<"f","r">>, <<"z","h","-","c","n">>}

\* What langdetect.detect does on a call: raises, or returns a code.
DetectorOutcomes ==
    {[raises |-> TRUE, code |-> <<>>]} \cup {[raises |-> FALSE, code |-> c] : c \in Codes}

NoDetector == [raises |-> FALSE, code |-> <<>>]

\* detect_language_safe without the try/except
detect_language_safe_NoCatch(text, det) ==
    IF Len(Split(text)) < MinTokens
    THEN [ret |-> NotEnoughText, invoked |-> FALSE, raised |-> FALSE]
    ELSE IF det.raises
    THEN [ret |-> <<>>, invoked |-> TRUE, raised |-> TRUE]
    ELSE [ret |-> lang_map_get(det.code, Upper(det.code)),
          invoked |-> TRUE, raised |-> FALSE]

\* detect_language_safe with the length check after the detection
detect_language_safe_DetectFirst(text, det) ==
    IF det.raises
    THEN [ret |-> Unknown, invoked |-> TRUE, raised |-> FALSE]
    ELSE IF Len(Split(text)) < MinTokens
    THEN [ret |-> NotEnoughText, invoked |-> TRUE, raised |-> FALSE]
    ELSE [ret |-> lang_map_get(det.code, Upper(det.code)),
          invoked |-> TRUE, raised |-> FALSE]

\* ret: the value returned; invoked: whether detect() was called;
\* raised: whether an exception leaves the function (the bare except
\* catches everything raised inside the try).
detect_language_safe(text, det) ==
    IF Len(Split(text)) < MinTokens
    THEN [ret |-> NotEnoughText, invoked |-> FALSE, raised |-> FALSE]
    ELSE IF det.raises
    THEN [ret |-> Unknown, invoked |-> TRUE, raised |-> FALSE]
    ELSE [ret |-> lang_map_get(det.code, Upper(det.code)),
          invoked |-> TRUE, raised |-> FALSE]

\* An HTML page: its elements in document order, each a tag and its text.
NonContentTags == {"script", "style", "nav", "footer", "header"}
Tags == {"p", "script", "nav"}
PageTexts == {<<"a"," ","a"," ","a"," ">>, <<"a","\n"," ","a">>}
Nodes == [tag : Tags, text : PageTexts]
Pages == SeqsUpTo(Nodes, MaxNodes)

\* for tag in soup([...]): tag.decompose()
RECURSIVE decompose(_)
decompose(page) ==
    IF page = <<>> THEN <<>>
    ELSE IF Head(page).tag \in NonContentTags THEN decompose(Tail(page))
    ELSE <<Head(page)>> \o decompose(Tail(page))

\* soup.get_text()
RECURSIVE get_text(_)
get_text(page) ==
    IF page = <<>> THEN <<>> ELSE Head(page).text \o get_text(Tail(page))

\* What the network and the HTML parser do on a call: requests.get raises,
\* or answers with a status and a page, which BeautifulSoup may fail on.
HttpOutcomes ==
    {[raises |-> TRUE, status |-> 0, page |-> <<>>, parseRaises |-> FALSE]}
    \cup [raises : {FALSE}, status : {HttpOk, 404, 500}, page : Pages,
          parseRaises : BOOLEAN]

NoHttp == [raises |-> FALSE, status |-> 0, page |-> <<>>, parseRaises |-> FALSE]

\* extract_text_from_url with the status check after the parse
extract_text_from_url_ParseFirst(u, h) ==
    IF h.raises
    THEN [ret |-> <<>>, parsed |-> FALSE, raised |-> FALSE]
    ELSE IF h.parseRaises
    THEN [ret |-> <<>>, parsed |-> TRUE, raised |-> FALSE]
    ELSE IF h.status # HttpOk
    THEN [ret |-> <<>>, parsed |-> TRUE, raised |-> FALSE]
    ELSE [ret |-> Take(Join(<<" ">>, Split(get_text(decompose(h.page)))), MaxExtractLen),
          parsed |-> TRUE, raised |-> FALSE]

\* ret: the value returned; parsed: whether BeautifulSoup was called;
\* raised: whether an exception leaves the function.
extract_text_from_url(u, h) ==
    IF h.raises
    THEN [ret |-> <<>>, parsed |-> FALSE, raised |-> FALSE]
    ELSE IF h.status # HttpOk
    THEN [ret |-> <<>>, parsed |-> FALSE, raised |-> FALSE]
    ELSE IF h.parseRaises
    THEN [ret |-> <<>>, parsed |-> TRUE, raised |-> FALSE]
    ELSE [ret |-> Take(Join(<<" ">>, Split(get_text(decompose(h.page)))), MaxExtractLen),
          parsed |-> TRUE, raised |-> FALSE]

\* Text the recogniser can return, verbatim (newlines kept).
OcrTexts == {<<>>, <<"h","e","y","\n">>,
             <<"a","\n","a"," ","a","\n","a"," ","a","\n">>}

\* An uploaded file: whether Image.open accepts it, and what
\* pytesseract.image_to_string does on it.
Images ==
    [present : {TRUE}, opens : BOOLEAN, ocrRaises : {TRUE}, ocrText : {<<>>}]
    \cup [present : {TRUE}, opens : BOOLEAN, ocrRaises : {FALSE}, ocrText : OcrTexts]

NoImage == [present |-> FALSE, opens |-> FALSE, ocrRaises |-> FALSE, ocrText |-> <<>>]

\* No handler surrounds the conversion or the recogniser call.
extract_text_from_image(image) ==
    IF image.ocrRaises
    THEN [ret |-> <<>>, raised |-> TRUE]
    ELSE [ret |-> image.ocrText, raised |-> FALSE]

NoneContent == <<"<None>">>

FAKE == <<"F","A","K","E">>

\* the verdict test without the upper()
VerdictOf_CaseSensitive(response) ==
    IF Contains(response, FAKE) THEN "FAKE NEWS" ELSE "REAL NEWS"

\* if "FAKE" in result.upper(): ... else: ...
VerdictOf(response) ==
    IF Contains(Upper(response), FAKE) THEN "FAKE NEWS" ELSE "REAL NEWS"

-----------------------------------------------------------------------------
(* Inputs *)

TextAlphabet == {" ", "a"}

SampleTexts ==
    {<<"h","e","l","l","o">>,
     <<" ","H","i","\n">>,
     <<"T","E","S","T">>,
     <<"H","i"," ","a","\t","b","\n","c"," ","d"," ">>,
     <<"\n","a","\t","b"," ","c","\n","d">>}

Texts == SeqsUpTo(TextAlphabet, MaxLen) \cup SampleTexts

Urls == {<<>>, <<"u">>}

Cores ==
    {<<c1, c2, c3, c4>> : c1 \in {"f", "F", "U+FB00"}, c2 \in {"a", "A"},
                          c3 \in {"k", "K", "U+212A", "x"}, c4 \in {"e", "E"}}

Pads == SeqsUpTo({" ", "n"}, MaxPad)

REAL == <<"R","E","A","L">>

\* Response texts of the reasoning service
Responses == {p \o c \o q : p \in Pads, c \in Cores, q \in Pads} \cup {<<>>, REAL}

ServiceErrors == {"Connection error.", "Error code: 401", "Error code: 429"}

\* What client.chat.completions.create does on a call: raises, or returns a
\* completion whose message content is a text or None.
ServiceOutcomes ==
    {[raises |-> TRUE, msg |-> m, content |-> <<>>] : m \in ServiceErrors}
    \cup {[raises |-> FALSE, msg |-> "", content |-> c] :
             c \in Cores \cup {<<>>, REAL, NoneContent}}

-----------------------------------------------------------------------------
(* The script run *)

Init ==
    /\ pc = "Idle"
    /\ input_type = "Text"
    /\ text_area = <<>>
    /\ url = <<>>
    /\ uploaded_image = NoImage
    /\ analyze = FALSE
    /\ http = NoHttp
    /\ news_text = <<>>
    /\ valid = "unchecked"
    /\ detector = NoDetector
    /\ lang = <<>>
    /\ langRuns = 0
    /\ detectCalls = 0
    /\ parsed = 0
    /\ groqCalls = 0
    /\ prompt = <<>>
    /\ svcError = ""
    /\ result = <<>>
    /\ shownLang = <<>>
    /\ verdict = "none"
    /\ warning = FALSE
    /\ error = <<>>
    /\ uncaught = ""
    /\ fn = "none"
    /\ arg = <<>>
    /\ ret = <<>>

\* Where the script goes after the input section: into the analysis block
\* when the button is pressed, to its end otherwise.
AfterInput == IF analyze THEN "Validating" ELSE "End"

\* A rerun of the script with the widgets as the user left them.
Rerun ==
    /\ pc = "Idle"
    /\ \E a \in BOOLEAN :
        /\ analyze' = a
        /\ \/ \E t \in Texts :
                /\ input_type' = "Text"
                /\ text_area' = t
                /\ UNCHANGED <<url, uploaded_image>>
           \/ \E u \in Urls :
                /\ input_type' = "URL"
                /\ url' = u
                /\ UNCHANGED <<text_area, uploaded_image>>
           \/ \E img \in Images \cup {NoImage} :
                /\ input_type' = "Image"
                /\ uploaded_image' = img
                /\ UNCHANGED <<text_area, url>>
    /\ news_text' = <<>>
    /\ pc' = "Input"
    /\ UNCHANGED <<http, valid, detector, lang, langRuns, detectCalls, parsed,
                   groqCalls, prompt, svcError, result, shownLang, verdict,
                   warning, error, uncaught, fn, arg, ret>>

InputText ==
    /\ pc = "Input"
    /\ input_type = "Text"
    /\ news_text' = text_area
    /\ pc' = AfterInput
    /\ UNCHANGED <<input_type, text_area, url, uploaded_image, analyze, http,
                   valid, detector, lang, langRuns, detectCalls, parsed,
                   groqCalls, prompt, svcError, result, shownLang, verdict,
                   warning, error, uncaught, fn, arg, ret>>

InputURL ==
    /\ pc = "Input"
    /\ input_type = "URL"
    /\ IF url # <<>>
       THEN \E h \in HttpOutcomes :
               LET r == extract_text_from_url(url, h) IN
               /\ http' = h
               /\ parsed' = parsed + (IF r.parsed THEN 1 ELSE 0)
               /\ IF r.raised
                  THEN /\ uncaught' = "Exception"
                       /\ pc' = "End"
                       /\ UNCHANGED news_text
                  ELSE /\ news_text' = r.ret
                       /\ pc' = AfterInput
                       /\ UNCHANGED uncaught
       ELSE /\ pc' = AfterInput
            /\ UNCHANGED <<http, parsed, news_text, uncaught>>
    /\ UNCHANGED <<input_type, text_area, url, uploaded_image, analyze, valid,
                   detector, lang, langRuns, detectCalls, groqCalls, prompt,
                   svcError, result, shownLang, verdict, warning, error, fn,
                   arg, ret>>

InputImage ==
    /\ pc = "Input"
    /\ input_type = "Image"
    /\ IF uploaded_image.present
       THEN IF ~uploaded_image.opens
            THEN /\ uncaught' = "UnidentifiedImageError"
                 /\ pc' = "End"
                 /\ UNCHANGED news_text
            ELSE LET r == extract_text_from_image(uploaded_image) IN
                 IF r.raised
                 THEN /\ uncaught' = "TesseractError"
                      /\ pc' = "End"
                      /\ UNCHANGED news_text
                 ELSE /\ news_text' = r.ret
                      /\ pc' = AfterInput
                      /\ UNCHANGED uncaught
       ELSE /\ pc' = AfterInput
            /\ UNCHANGED <<news_text, uncaught>>
    /\ UNCHANGED <<input_type, text_area, url, uploaded_image, analyze, http,
                   valid, detector, lang, langRuns, detectCalls, parsed,
                   groqCalls, prompt, svcError, result, shownLang, verdict,
                   warning, error, fn, arg, ret>>

\* the validation check without the st.stop()
Validate_NoStop ==
    /\ pc = "Validating"
    /\ IF ~is_valid_news(news_text)
       THEN /\ valid' = "failed"
            /\ warning' = TRUE
       ELSE /\ valid' = "passed"
            /\ UNCHANGED warning
    /\ pc' = "LanguageDetecting"
    /\ UNCHANGED <<input_type, text_area, url, uploaded_image, analyze, http,
                   news_text, detector, lang, langRuns, detectCalls, parsed,
                   groqCalls, prompt, svcError, result, shownLang, verdict,
                   error, uncaught, fn, arg, ret>>

Validate ==
    /\ pc = "Validating"
    /\ IF ~is_valid_news(news_text)
       THEN /\ valid' = "failed"
            /\ warning' = TRUE
            /\ pc' = "End"
       ELSE /\ valid' = "passed"
            /\ pc' = "LanguageDetecting"
            /\ UNCHANGED warning
    /\ UNCHANGED <<input_type, text_area, url, uploaded_image, analyze, http,
                   news_text, detector, lang, langRuns, detectCalls, parsed,
                   groqCalls, prompt, svcError, result, shownLang, verdict,
                   error, uncaught, fn, arg, ret>>

DetectLanguage ==
    /\ pc = "LanguageDetecting"
    /\ \E det \in DetectorOutcomes :
        LET r == detect_language_safe(news_text, det) IN
        /\ langRuns' = langRuns + 1
        /\ detectCalls' = detectCalls + (IF r.invoked THEN 1 ELSE 0)
        /\ detector' = IF r.invoked THEN det ELSE NoDetector
        /\ IF r.raised
           THEN /\ error' = <<"API Error: ", "LangDetectException">>
                /\ pc' = "End"
                /\ UNCHANGED lang
           ELSE /\ lang' = r.ret
                /\ pc' = "AwaitingVerdict"
                /\ UNCHANGED error
    /\ UNCHANGED <<input_type, text_area, url, uploaded_image, analyze, http,
                   news_text, valid, parsed, groqCalls, prompt, svcError,
                   result, shownLang, verdict, warning, uncaught, fn, arg, ret>>

\* the service call with its exception swallowed and an empty answer used
CallGroq_ErrorAsAnswer ==
    /\ pc = "AwaitingVerdict"
    /\ \E o \in ServiceOutcomes :
        /\ groqCalls' = groqCalls + 1
        /\ prompt' = news_text
        /\ svcError' = IF o.raises THEN o.msg ELSE ""
        /\ result' = o.content
        /\ pc' = "Rendering"
        /\ UNCHANGED error
    /\ UNCHANGED <<input_type, text_area, url, uploaded_image, analyze, http,
                   news_text, valid, detector, lang, langRuns, detectCalls,
                   parsed, shownLang, verdict, warning, uncaught, fn, arg, ret>>

CallGroq ==
    /\ pc = "AwaitingVerdict"
    /\ \E o \in ServiceOutcomes :
        /\ groqCalls' = groqCalls + 1
        /\ prompt' = news_text
        /\ IF o.raises
           THEN /\ svcError' = o.msg
                /\ error' = <<"API Error: ", o.msg>>
                /\ pc' = "End"
                /\ UNCHANGED result
           ELSE /\ result' = o.content
                /\ pc' = "Rendering"
                /\ UNCHANGED <<svcError, error>>
    /\ UNCHANGED <<input_type, text_area, url, uploaded_image, analyze, http,
                   news_text, valid, detector, lang, langRuns, detectCalls,
                   parsed, shownLang, verdict, warning, uncaught, fn, arg, ret>>

\* Renders the language, then the verdict badge; result.upper() on None
\* raises AttributeError, which the except clause reports.
Render ==
    /\ pc = "Rendering"
    /\ shownLang' = lang
    /\ IF result = NoneContent
       THEN /\ error' = <<"API Error: ", "'NoneType' object has no attribute 'upper'">>
            /\ UNCHANGED verdict
       ELSE /\ verdict' = VerdictOf(result)
            /\ UNCHANGED error
    /\ pc' = "End"
    /\ UNCHANGED <<input_type, text_area, url, uploaded_image, analyze, http,
                   news_text, valid, detector, lang, langRuns, detectCalls,
                   parsed, groqCalls, prompt, svcError, result, warning,
                   uncaught, fn, arg, ret>>

\* The run is over; the next rerun starts from a fresh script state.
Finish ==
    /\ pc = "End"
    /\ pc' = "Idle"
    /\ input_type' = "Text"
    /\ text_area' = <<>>
    /\ url' = <<>>
    /\ uploaded_image' = NoImage
    /\ analyze' = FALSE
    /\ http' = NoHttp
    /\ news_text' = <<>>
    /\ valid' = "unchecked"
    /\ detector' = NoDetector
    /\ lang' = <<>>
    /\ langRuns' = 0
    /\ detectCalls' = 0
    /\ parsed' = 0
    /\ groqCalls' = 0
    /\ prompt' = <<>>
    /\ svcError' = ""
    /\ result' = <<>>
    /\ shownLang' = <<>>
    /\ verdict' = "none"
    /\ warning' = FALSE
    /\ error' = <<>>
    /\ uncaught' = ""
    /\ UNCHANGED <<fn, arg, ret>>

Next ==
    \/ Rerun
    \/ InputText
    \/ InputURL
    \/ InputImage
    \/ Validate
    \/ DetectLanguage
    \/ CallGroq
    \/ Render
    \/ Finish

Spec == Init /\ [][Next]_vars

-----------------------------------------------------------------------------
(* Unit calls of the helper functions on arbitrary strings *)

InitFn ==
    /\ pc = "Unit"
    /\ input_type = "Text"
    /\ text_area = <<>>
    /\ url = <<>>
    /\ uploaded_image = NoImage
    /\ analyze = FALSE
    /\ http = NoHttp
    /\ news_text = <<>>
    /\ valid = "unchecked"
    /\ detector = NoDetector
    /\ lang = <<>>
    /\ langRuns = 0
    /\ detectCalls = 0
    /\ parsed = 0
    /\ groqCalls = 0
    /\ prompt = <<>>
    /\ svcError = ""
    /\ result = <<>>
    /\ shownLang = <<>>
    /\ verdict = "none"
    /\ warning = FALSE
    /\ error = <<>>
    /\ uncaught = ""
    /\ fn = "none"
    /\ arg \in Texts \cup Responses
    /\ ret = <<>>

CallDetectLanguage ==
    /\ pc = "Unit"
    /\ fn = "none"
    /\ \E det \in DetectorOutcomes :
        LET r == detect_language_safe(arg, det) IN
        /\ fn' = "detect_language_safe"
        /\ detector' = det
        /\ detectCalls' = detectCalls + (IF r.invoked THEN 1 ELSE 0)
        /\ ret' = r
    /\ UNCHANGED <<pc, input_type, text_area, url, uploaded_image, analyze,
                   http, news_text, valid, lang, langRuns, parsed, groqCalls,
                   prompt, svcError, result, shownLang, verdict, warning,
                   error, uncaught, arg>>

CallVerdict ==
    /\ pc = "Unit"
    /\ fn = "none"
    /\ fn' = "verdict"
    /\ ret' = [ret |-> VerdictOf(arg)]
    /\ UNCHANGED <<pc, input_type, text_area, url, uploaded_image, analyze,
                   http, news_text, valid, detector, lang, langRuns,
                   detectCalls, parsed, groqCalls, prompt, svcError, result,
                   shownLang, verdict, warning, error, uncaught, arg>>

NextFn ==
    \/ CallDetectLanguage
    \/ CallVerdict

SpecFn == InitFn /\ [][NextFn]_vars

-----------------------------------------------------------------------------
(* Vocabulary of the properties, stated without the operators above *)

\* Number of whitespace-separated tokens: the positions where a token starts.
CountTokens(s) ==
    Cardinality({i \in 1..Len(s) : ~IsSpace(s[i]) /\ (i = 1 \/ IsSpace(s[i - 1]))})

\* The text between its first and its last non-whitespace character.
TrimmedOf(s) ==
    LET ns == {i \in 1..Len(s) : ~IsSpace(s[i])} IN
    IF ns = {} THEN <<>>
    ELSE SubSeq(s, CHOOSE i \in ns : \A j \in ns : i <= j,
                   CHOOSE i \in ns : \A j \in ns : i >= j)

SameLetter(c, d) ==
    \/ c = d
    \/ \E i \in 1..26 : {c, d} = {LowerLetters[i], UpperLetters[i]}

SameIgnoringCase(a, b) ==
    Len(a) = Len(b) /\ \A i \in 1..Len(a) : SameLetter(a[i], b[i])

IsGreeting(s) == \E g \in greetings : SameIgnoringCase(TrimmedOf(s), g)

\* "fake" in any casing, somewhere in s
HasCasing(s) ==
    \E i \in 1..(Len(s) - 3) :
        /\ s[i] \in {"f", "F"}
        /\ s[i + 1] \in {"a", "A"}
        /\ s[i + 2] \in {"k", "K"}
        /\ s[i + 3] \in {"e", "E"}

\* the ligature U+FB00 followed by "ake" in any casing, somewhere in s
HasLigatureForm(s) ==
    \E i \in 1..(Len(s) - 3) :
        /\ s[i] = "U+FB00"
        /\ s[i + 1] \in {"a", "A"}
        /\ s[i + 2] \in {"k", "K"}
        /\ s[i + 3] \in {"e", "E"}

NamedLabels ==
    {English, Tamil, Hindi, Telugu, Kannada, Malayalam, Unknown, NotEnoughText}

\* Other(code): a detector code with no lowercase letter left in it
OtherLabel(l) ==
    /\ \E c \in Codes : SameIgnoringCase(c, l)
    /\ \A i \in 1..Len(l) : ~IsIn(LowerLetters, l[i])

InLabelSet(l) == l \in NamedLabels \/ OtherLabel(l)

Ended == pc = "End" /\ analyze

RejectedInvalid == warning
Done == verdict # "none"
Failed == error # <<>>

UrlFetched == input_type = "URL" /\ url # <<>> /\ pc \notin {"Idle", "Input"}

UrlFailed == UrlFetched /\ (http.raises \/ http.status # 200 \/ http.parseRaises)

ImageFailed ==
    /\ input_type = "Image"
    /\ pc \notin {"Idle", "Input"}
    /\ uploaded_image.present
    /\ (~uploaded_image.opens \/ uploaded_image.ocrRaises)

-----------------------------------------------------------------------------
(* Properties *)

\* C1: every analyze request ends in exactly one of rejected-invalid, Done
\* and Failed: no exception escapes the script, and no two of the three
\* outcomes are produced together.
C1_ExactlyOneTerminal ==
    Ended =>
        /\ uncaught = ""
        /\ \/ RejectedInvalid /\ ~Done /\ ~Failed
           \/ ~RejectedInvalid /\ Done /\ ~Failed
           \/ ~RejectedInvalid /\ ~Done /\ Failed

\* C2: when validation fails the run ends at once with the warning: language
\* detection is not run, the service is not called, no verdict or error is
\* produced; anything of these happening means the text was valid.
C2_RejectedStopsProcessing ==
    /\ valid = "failed" =>
          /\ pc = "End"
          /\ warning
          /\ langRuns = 0 /\ detectCalls = 0 /\ groqCalls = 0
          /\ shownLang = <<>> /\ verdict = "none" /\ error = <<>>
    /\ (langRuns > 0 \/ groqCalls > 0 \/ verdict # "none" \/ error # <<>>) =>
          valid = "passed" /\ ~warning /\ CountTokens(news_text) >= 5

C2_Witness ==
    /\ pc = "End"
    /\ valid = "failed"
    /\ input_type = "Image"
    /\ news_text # <<>>

\* C3: a failed service call ends the run in Failed with the exception's
\* message in the error shown and no verdict; the service is called at most
\* once per run.
C3_ServiceErrorFails ==
    /\ groqCalls <= 1
    /\ svcError # "" =>
          /\ pc = "End"
          /\ groqCalls = 1
          /\ error = <<"API Error: ", svcError>>
          /\ verdict = "none"

C3_Witness ==
    /\ pc = "End"
    /\ svcError = "Error code: 429"
    /\ groqCalls = 1
    /\ Failed

\* C4: an extraction failure on the URL or the image path raises nothing
\* past the extractor and the run ends rejected-invalid.
C4_ExtractionFailureRejected ==
    (UrlFailed \/ ImageFailed) =>
        /\ uncaught = ""
        /\ Ended => RejectedInvalid /\ ~Done /\ ~Failed

\* C5: validation passes exactly when the trimmed text has at least 5
\* tokens and is not, ignoring case, one of the greetings; the text is
\* passed on to the service as it was supplied.
C5_IsValidDecision ==
    /\ valid # "unchecked" =>
          (valid = "passed" <=>
              ~(CountTokens(TrimmedOf(news_text)) < 5 \/ IsGreeting(news_text)))
    /\ (valid # "unchecked" /\ input_type = "Text") => news_text = text_area
    /\ (groqCalls > 0 /\ input_type = "Text") => prompt = text_area

C5_Witness ==
    /\ valid = "passed"
    /\ input_type = "Text"
    /\ groqCalls = 1
    /\ prompt = text_area
    /\ TrimmedOf(text_area) # text_area
    /\ \E i \in 1..Len(text_area) : IsIn(UpperLetters, text_area[i])

\* C6 as claimed: the verdict is Fake exactly when the response contains
\* "fake" in some casing.
C6_FakeIffCasing ==
    fn = "verdict" => (ret.ret = "FAKE NEWS" <=> HasCasing(arg))

\* C6 amended: the verdict is Fake exactly when the response contains "fake"
\* in some casing or the ligature U+FB00 followed by "ake" in some casing
\* (upper() turns the ligature into "FF"), and Real otherwise; the Kelvin
\* sign, which upper() leaves as it is, does not stand for a "k".
C6_FakeIffUpperHasFake ==
    fn = "verdict" =>
        /\ ret.ret \in {"FAKE NEWS", "REAL NEWS"}
        /\ ret.ret = "FAKE NEWS" <=> (HasCasing(arg) \/ HasLigatureForm(arg))

C6_Witness ==
    /\ fn = "verdict"
    /\ ret.ret = "FAKE NEWS"
    /\ HasLigatureForm(arg)
    /\ ~HasCasing(arg)

\* C7: detect_language_safe raises nothing and returns a label of the fixed
\* set, whatever the detector does; a detector exception gives Unknown.
C7_DetectLanguageTotal ==
    fn = "detect_language_safe" =>
        /\ ~ret.raised
        /\ InLabelSet(ret.ret)
        /\ (ret.invoked /\ detector.raises) => ret.ret = Unknown

C7_Witness ==
    /\ fn = "detect_language_safe"
    /\ ret.invoked
    /\ detector.raises
    /\ ret.ret = Unknown

\* C8: extract_text_from_url returns the empty string on a non-200 status
\* and on any exception of the fetch or the parse, raises nothing, and does
\* not parse a non-200 response.
C8_UrlFailureIsEmpty ==
    UrlFetched =>
        /\ uncaught = ""
        /\ UrlFailed => news_text = <<>>
        /\ (http.raises \/ http.status # 200) => parsed = 0

C8_Witness ==
    /\ UrlFetched
    /\ ~http.raises
    /\ http.status = 404
    /\ CountTokens(get_text(decompose(http.page))) >= 5
    /\ news_text = <<>>
    /\ parsed = 0

\* C9: on a text of fewer than 5 tokens detect_language_safe returns
\* "Not enough text" and the detector is not called.
C9_ShortTextInsufficient ==
    (fn = "detect_language_safe" /\ CountTokens(arg) < 5) =>
        /\ ret.ret = NotEnoughText
        /\ ~ret.invoked
        /\ detectCalls = 0

C9_Witness ==
    /\ fn = "detect_language_safe"
    /\ CountTokens(arg) = 3
    /\ ~detector.raises
    /\ detector.code = <<"e","n">>
    /\ ret.ret = NotEnoughText

\* C10: a run that reaches the service call or a verdict has a text of at
\* least 5 tokens and a language label other than "Not enough text"; the
\* token count validation sees (trimmed, lowercased) is the one language
\* detection sees (the text as it is).
C10_ServiceTextHasFiveTokens ==
    /\ (pc \in {"AwaitingVerdict", "Rendering"} \/ groqCalls > 0 \/ Done) =>
          /\ CountTokens(news_text) >= 5
          /\ lang # NotEnoughText
          /\ detectCalls = 1
    /\ valid # "unchecked" =>
          Len(Split(Lower(Strip(news_text)))) = Len(Split(news_text))

C10_Witness ==
    /\ pc = "End"
    /\ Done
    /\ CountTokens(news_text) = 5
    /\ TrimmedOf(news_text) # news_text
    /\ shownLang = lang
    /\ lang # NotEnoughText

====
